---- MODULE Spec2Model ----
(***************************************************************************)
(* The two command line tools of gammapy/scripts: check.py (run the unit   *)
(* tests) and find_runs.py (select runs; a stub that raises).              *)
(*                                                                         *)
(* One Python process is modelled.  It makes calls one after the other:    *)
(* either a command line entry point (check.main, find_runs.main) with an  *)
(* argument list, or the library function (check(), find_runs()) directly. *)
(* A command line entry point ends the process (parser exit, uncaught      *)
(* exception, or return to the console script); after a direct call the    *)
(* caller may go on and make the next call.                                *)
(*                                                                         *)
(* The process state is the root logger's configuration, the files the     *)
(* argument parser opens, and the position inside the current call.        *)
(***************************************************************************)
EXTENDS Naturals, Sequences, FiniteSets

(* ------------------------------ bounds --------------------------------- *)

\* longest argument list handed to a main()
MaxArgs == 5
\* number of calls one process makes
MaxCalls == 3

(* ------------------------------ tokens --------------------------------- *)

\* argument strings that do not start with '-'
PosTokens == {"list.txt", "out.txt", "10.0", "20.0", "gammapy.stats", "gammapy.utils"}
\* argument strings tried on the find_runs command line
FindRunsTokens == {"list.txt", "out.txt", "10.0", "20.0", "--pix", "--overwrite", "-h", "--bad"}
\* argument strings tried on the check command line
CheckTokens == {"--package", "gammapy.stats", "gammapy.utils", "-h"}

\* Python's None
None == "<None>"
\* sys.stdout, the default of outfile
Stdout == [name |-> "<stdout>", mode |-> "w"]
NoFile == [name |-> None, mode |-> None]

\* float(tok): the value, or a ValueError.  "10.0" and "20.0" are the floats
\* 10 and 20; a file name is no float.
ParseFloat(tok) ==
    CASE tok = "10.0" -> [ok |-> TRUE, val |-> 10]
      [] tok = "20.0" -> [ok |-> TRUE, val |-> 20]
      [] OTHER -> [ok |-> FALSE, val |-> 0]

(* ------------------------------ logging -------------------------------- *)

LogFormat == "%(levelname)s - %(message)s"
\* the root logger of a fresh process: level WARNING, no handler
FreshLogging == [level |-> "WARNING", handlers |-> <<>>]
ConfiguredLogging == [level |-> "DEBUG", handlers |-> <<LogFormat>>]

\* a basicConfig that installs a handler on every call
basicConfigAlways(l) ==
    [level |-> "DEBUG", handlers |-> Append(l.handlers, LogFormat)]

\* a basicConfig call that was left out
basicConfigSkipped(l) == l

\* logging.basicConfig(level=logging.DEBUG, format=...): does nothing when the
\* root logger already has a handler
basicConfig(l) ==
    IF Len(l.handlers) = 0
    THEN [level |-> "DEBUG", handlers |-> <<LogFormat>>]
    ELSE l

(* ------------------------- find_runs: the parser ----------------------- *)

\* option strings the find_runs parser knows (-h/--help is added by argparse)
IsOptionString(tok) == tok \notin PosTokens

\* number of consecutive positional strings of argv from index i on
RECURSIVE RunLen(_, _)
RunLen(argv, i) ==
    IF i > Len(argv) \/ IsOptionString(argv[i]) THEN 0
    ELSE 1 + RunLen(argv, i + 1)

\* the parser's state before the first argument string:
\*   pos     how many of infile, outfile, x, y are bound (in this order)
\*   status  "run", then "ok" | "error" (exit 2, usage) | "help" (exit 0)
FindRunsParser0(files) ==
    [pos |-> 0, status |-> "run", extras |-> 0, files |-> files,
     infile |-> NoFile, outfile |-> Stdout, x |-> 0, y |-> 0,
     pix |-> FALSE, overwrite |-> FALSE]

\* an outfile that takes a string whenever one follows infile
OutfileBoundEagerly(k) == k >= 2

\* outfile takes a string only when the first run of positionals has four
\* strings or more: with fewer, infile, x and y are served first
OutfileBoundWith(k) == k >= 4

\* argparse.FileType('w') called at parse time: open(name, 'w') creates or
\* truncates the file
OpenForWriting(files, name) == [files EXCEPT ![name] = "empty"]

\* one positional argument string
ConsumePositional(argv, i, st) ==
    LET tok == argv[i] IN
    CASE st.pos = 0 ->
           \* infile: argparse.FileType('r') opens it now
           IF st.files[tok] = "absent"
           THEN [st EXCEPT !.status = "error"]
           ELSE [st EXCEPT !.infile = [name |-> tok, mode |-> "r"],
                           !.pos = IF OutfileBoundWith(RunLen(argv, i))
                                   THEN 1 ELSE 2]
      [] st.pos = 1 ->
           [st EXCEPT !.outfile = [name |-> tok, mode |-> "w"],
                      !.files = OpenForWriting(st.files, tok),
                      !.pos = 2]
      [] st.pos = 2 ->
           IF ParseFloat(tok).ok
           THEN [st EXCEPT !.x = ParseFloat(tok).val, !.pos = 3]
           ELSE [st EXCEPT !.status = "error"]
      [] st.pos = 3 ->
           IF ParseFloat(tok).ok
           THEN [st EXCEPT !.y = ParseFloat(tok).val, !.pos = 4]
           ELSE [st EXCEPT !.status = "error"]
      [] OTHER -> [st EXCEPT !.extras = @ + 1]

\* one option string
ConsumeOptional(tok, st) ==
    CASE tok = "-h" -> [st EXCEPT !.status = "help"]
      [] tok = "--pix" -> [st EXCEPT !.pix = TRUE]
      [] tok = "--overwrite" -> [st EXCEPT !.overwrite = TRUE]
      [] OTHER -> [st EXCEPT !.extras = @ + 1]

\* a parser whose positionals are all optional
FinishParseNoRequired(st) ==
    [st EXCEPT !.status = IF st.extras > 0 THEN "error" ELSE "ok"]

\* after the last string: required arguments, then unrecognized ones
FinishParse(st) ==
    IF st.pos < 4 \/ st.extras > 0
    THEN [st EXCEPT !.status = "error"]
    ELSE [st EXCEPT !.status = "ok"]

RECURSIVE ParseFrom(_, _, _)
ParseFrom(argv, i, st) ==
    IF st.status # "run" THEN st
    ELSE IF i > Len(argv) THEN FinishParse(st)
    ELSE IF IsOptionString(argv[i])
         THEN ParseFrom(argv, i + 1, ConsumeOptional(argv[i], st))
         ELSE ParseFrom(argv, i + 1, ConsumePositional(argv, i, st))

\* parser.parse_args(args) of find_runs.main
FindRunsParseArgs(argv, files) == ParseFrom(argv, 1, FindRunsParser0(files))

(* --------------------------- check: the parser ------------------------- *)

\* a --package whose value is dropped
PackageValueDropped(tok) == None

\* type=str applied to the argument string
PackageValue(tok) == tok

RECURSIVE CheckParseFrom(_, _, _)
CheckParseFrom(argv, i, st) ==
    IF st.status # "run" THEN st
    ELSE IF i > Len(argv)
         THEN [st EXCEPT !.status = IF st.extras > 0 THEN "error" ELSE "ok"]
    ELSE CASE argv[i] = "-h" -> [st EXCEPT !.status = "help"]
           [] argv[i] = "--package" ->
                \* the option takes exactly one argument string
                IF i + 1 > Len(argv) \/ IsOptionString(argv[i + 1])
                THEN [st EXCEPT !.status = "error"]
                ELSE CheckParseFrom(argv, i + 2,
                         [st EXCEPT !.package = PackageValue(argv[i + 1])])
           [] OTHER ->
                CheckParseFrom(argv, i + 1, [st EXCEPT !.extras = @ + 1])

\* parser.parse_args(args) of check.main
CheckParseArgs(argv) ==
    CheckParseFrom(argv, 1, [status |-> "run", extras |-> 0, package |-> None])

(* ------------------------------ the process ---------------------------- *)

VARIABLES
    fn,         \* the tool of the current call: "check", "find_runs" ("none" at start)
    pc,         \* position of the current call: "idle", "fr_main", "fr_config",
                \* "fr_raise", "ck_main", "ck_config", "ck_test", "done"
    viaMain,    \* the current call is a command line entry point
    argv,       \* the argument list of the current main()
    args,       \* find_runs: the parsed arguments / the function's arguments
    package,    \* check: the parsed / given package
    logging,    \* the root logger: level and the formats of its handlers
    files,      \* the files of the working directory: "absent", "data", "empty"
    outcome,    \* how the current call ended, and the exit status that follows
    stderr,     \* what the parser wrote to standard error
    entered,    \* the body of check() / find_runs() was entered in this call
    testCalls,  \* the calls of gammapy.test made in this call
    testResult, \* what gammapy.test did: "passed", "failed" or "raised"
    trace,      \* the steps of the current call, in order
    ncalls      \* calls started in this process

vars == <<fn, pc, viaMain, argv, args, package, logging, files, outcome, stderr,
          entered, testCalls, testResult, trace, ncalls>>

NoOutcome == [kind |-> "none", status |-> 0]
NoArgs == [infile |-> NoFile, outfile |-> Stdout, x |-> 0, y |-> 0,
           pix |-> FALSE, overwrite |-> FALSE]

\* vars(args) of the find_runs parser
Namespace(st) ==
    [infile |-> st.infile, outfile |-> st.outfile, x |-> st.x, y |-> st.y,
     pix |-> st.pix, overwrite |-> st.overwrite]

\* the working directory: a run list and an earlier output file
Files0 == [f \in PosTokens |->
              IF f \in {"list.txt", "out.txt"} THEN "data" ELSE "absent"]

\* well-formed arguments of a direct find_runs() call
FindRunsArgs ==
    [infile : {[name |-> "list.txt", mode |-> "r"]},
     outfile : {Stdout, [name |-> "out.txt", mode |-> "w"]},
     x : {10, 20}, y : {10, 20}, pix : BOOLEAN, overwrite : BOOLEAN]

\* packages of a direct check() call
Packages == {None, "gammapy.stats", "gammapy.utils"}

\* what the test run can do: all tests pass, some fail (a non-zero result is
\* returned), or the call raises
TestOutcomes == {"passed", "failed", "raised"}

Init ==
    /\ fn = "none"
    /\ pc = "idle"
    /\ viaMain = FALSE
    /\ argv = <<>>
    /\ args = NoArgs
    /\ package = None
    /\ logging = FreshLogging
    /\ files = Files0
    /\ outcome = NoOutcome
    /\ stderr = ""
    /\ entered = FALSE
    /\ testCalls = <<>>
    /\ testResult = "none"
    /\ trace = <<>>
    /\ ncalls = 0

\* a call can start
CanCall == pc = "idle" /\ ncalls < MaxCalls

\* a call starts
StartCall(tool, to, main, av) ==
    /\ fn' = tool
    /\ pc' = to
    /\ viaMain' = main
    /\ argv' = av
    /\ ncalls' = ncalls + 1
    /\ UNCHANGED <<logging, files, outcome, stderr, testCalls, testResult, trace>>

\* a main() that swallows the parser's exit and returns
ParserErrorCaught == [kind |-> "return", status |-> 0]

\* a parser error that exits with status 0
ParserErrorExitsZero == [kind |-> "SystemExit", status |-> 0]

\* parse_args on a bad argument list: parser.error() writes the usage message
\* and the error to standard error and raises SystemExit(2)
ParserError == [kind |-> "SystemExit", status |-> 2]

\* parse_args on -h: the help is printed and SystemExit(0) is raised
ParserHelp == [kind |-> "SystemExit", status |-> 0]

(* ------------------------------ find_runs.py --------------------------- *)

\* find_runs.main(argv) is called
MainFindRuns ==
    /\ CanCall
    /\ \E k \in 0..MaxArgs : \E av \in [1..k -> FindRunsTokens] :
        /\ StartCall("find_runs", "fr_main", TRUE, av)
        /\ UNCHANGED <<args, package, entered>>

\* main: parse_args, then find_runs(**vars(args)) is entered
FindRunsParse ==
    /\ pc = "fr_main"
    /\ LET st == FindRunsParseArgs(argv, files) IN
        /\ files' = st.files
        /\ trace' = Append(trace, "parse_args")
        /\ CASE st.status = "ok" ->
                  /\ args' = Namespace(st)
                  /\ entered' = TRUE
                  /\ pc' = "fr_config"
                  /\ UNCHANGED <<outcome, stderr>>
             [] st.status = "help" ->
                  /\ outcome' = ParserHelp
                  /\ pc' = "done"
                  /\ UNCHANGED <<args, entered, stderr>>
             [] OTHER ->
                  /\ outcome' = ParserError
                  /\ stderr' = "usage"
                  /\ pc' = "done"
                  /\ UNCHANGED <<args, entered>>
    /\ UNCHANGED <<fn, viaMain, argv, package, logging, testCalls, testResult, ncalls>>

\* find_runs(infile, outfile, x, y, pix, overwrite) is called directly
CallFindRuns ==
    /\ CanCall
    /\ \E a \in FindRunsArgs :
        /\ StartCall("find_runs", "fr_config", FALSE, <<>>)
        /\ args' = a
        /\ entered' = TRUE
        /\ UNCHANGED package

\* find_runs: logging.basicConfig(...)
FindRunsBasicConfig ==
    /\ pc = "fr_config"
    /\ logging' = basicConfig(logging)
    /\ trace' = Append(trace, "basicConfig")
    /\ pc' = "fr_raise"
    /\ UNCHANGED <<fn, viaMain, argv, args, package, files, outcome, stderr,
                   entered, testCalls, testResult, ncalls>>

\* a find_runs whose body ends without raising
FindRunsReturns == [kind |-> "return", status |-> 0]

\* the last statement of find_runs: raise NotImplementedError
FindRunsBodyEnd == [kind |-> "NotImplementedError", status |-> 1]

\* find_runs: raise NotImplementedError; nothing catches it
FindRunsRaise ==
    /\ pc = "fr_raise"
    /\ outcome' = FindRunsBodyEnd
    /\ trace' = Append(trace, "raise")
    /\ pc' = "done"
    /\ UNCHANGED <<fn, viaMain, argv, args, package, logging, files, stderr,
                   entered, testCalls, testResult, ncalls>>

(* -------------------------------- check.py ----------------------------- *)

\* check.main(argv) is called
MainCheck ==
    /\ CanCall
    /\ \E k \in 0..MaxArgs : \E av \in [1..k -> CheckTokens] :
        /\ StartCall("check", "ck_main", TRUE, av)
        /\ UNCHANGED <<args, package, entered>>

\* main: parse_args, then check(**vars(args)) is entered
CheckParse ==
    /\ pc = "ck_main"
    /\ LET st == CheckParseArgs(argv) IN
        /\ trace' = Append(trace, "parse_args")
        /\ CASE st.status = "ok" ->
                  /\ package' = st.package
                  /\ entered' = TRUE
                  /\ pc' = "ck_config"
                  /\ UNCHANGED <<outcome, stderr>>
             [] st.status = "help" ->
                  /\ outcome' = ParserHelp
                  /\ pc' = "done"
                  /\ UNCHANGED <<package, entered, stderr>>
             [] OTHER ->
                  /\ outcome' = ParserError
                  /\ stderr' = "usage"
                  /\ pc' = "done"
                  /\ UNCHANGED <<package, entered>>
    /\ UNCHANGED <<fn, viaMain, argv, args, logging, files, testCalls, testResult,
                   ncalls>>

\* check(package) is called directly
CallCheck ==
    /\ CanCall
    /\ \E p \in Packages :
        /\ StartCall("check", "ck_config", FALSE, <<>>)
        /\ package' = p
        /\ entered' = TRUE
        /\ UNCHANGED args

\* check: logging.basicConfig(...)
CheckBasicConfig ==
    /\ pc = "ck_config"
    /\ logging' = basicConfig(logging)
    /\ trace' = Append(trace, "basicConfig")
    /\ pc' = "ck_test"
    /\ UNCHANGED <<fn, viaMain, argv, args, package, files, outcome, stderr,
                   entered, testCalls, testResult, ncalls>>

\* the filter check() hands to gammapy.test
TestFilter(p) == p

\* how a call of check ends after gammapy.test did r: its return value is
\* dropped, an exception it raises is not caught
CheckOutcome(r) ==
    IF r = "raised"
    THEN [kind |-> "TestError", status |-> 1]
    ELSE [kind |-> "return", status |-> 0]

\* check: gammapy.test(package, verbose=True)
CheckTest ==
    /\ pc = "ck_test"
    /\ \E r \in TestOutcomes :
        /\ testResult' = r
        /\ outcome' = CheckOutcome(r)
    /\ testCalls' = Append(testCalls,
                           [package |-> TestFilter(package), verbose |-> TRUE])
    /\ trace' = Append(trace, "gammapy.test")
    /\ pc' = "done"
    /\ UNCHANGED <<fn, viaMain, argv, args, package, logging, files, stderr,
                   entered, ncalls>>

(* ----------------------------------------------------------------------- *)

\* the caller of a direct call goes on (it caught what the call raised); a
\* command line entry point ends the process instead
NextCall ==
    /\ pc = "done"
    /\ ~viaMain
    /\ pc' = "idle"
    /\ args' = NoArgs
    /\ package' = None
    /\ outcome' = NoOutcome
    /\ entered' = FALSE
    /\ testCalls' = <<>>
    /\ testResult' = "none"
    /\ trace' = <<>>
    /\ UNCHANGED <<fn, viaMain, argv, logging, files, stderr, ncalls>>

Next ==
    \/ MainFindRuns
    \/ FindRunsParse
    \/ CallFindRuns
    \/ FindRunsBasicConfig
    \/ FindRunsRaise
    \/ MainCheck
    \/ CheckParse
    \/ CallCheck
    \/ CheckBasicConfig
    \/ CheckTest
    \/ NextCall

Spec == Init /\ [][Next]_vars

(* ------------------------------ properties ----------------------------- *)

Range(q) == {q[i] : i \in DOMAIN q}
NumPositionals(av) == Cardinality({i \in DOMAIN av : ~IsOptionString(av[i])})

InFindRunsMain == fn = "find_runs" /\ viaMain
InCheckMain == fn = "check" /\ viaMain
Handle(name, mode) == [name |-> name, mode |-> mode]

\* C1: every call of find_runs() with well-formed arguments, the first and
\* every repeated one, ends by raising NotImplementedError; no call returns.
FindRunsAlwaysRaises ==
    (fn = "find_runs" /\ entered) =>
        /\ outcome.kind # "return"
        /\ pc = "done" => outcome.kind = "NotImplementedError"

\* a third direct call of find_runs() in one process has raised
FindRunsAlwaysRaisesWitness ==
    /\ fn = "find_runs" /\ ~viaMain /\ pc = "done" /\ ncalls = 3
    /\ args.outfile = Handle("out.txt", "w") /\ args.pix
    /\ outcome.kind = "NotImplementedError"

\* C2 as stated: no argument list makes find_runs.main end with exit status 0.
MainFindRunsNeverExitsZero ==
    (InFindRunsMain /\ pc = "done") => outcome.status # 0

\* C2, amended: find_runs.main never returns normally, and it ends with a
\* non-zero status (2 from the parser, 1 from NotImplementedError) whenever
\* the argument list holds no help option; status 0 is the parser's help exit.
MainFindRunsFailsUnlessHelp ==
    (InFindRunsMain /\ pc = "done") =>
        /\ outcome.kind \in {"SystemExit", "NotImplementedError"}
        /\ "-h" \notin Range(argv) => outcome.status \in {1, 2}
        /\ outcome.status = 0 => outcome = ParserHelp /\ "-h" \in Range(argv)

\* a well-formed command line without -h ended with NotImplementedError
MainFindRunsFailsWitness ==
    /\ InFindRunsMain /\ pc = "done"
    /\ argv = <<"list.txt", "out.txt", "10.0", "20.0", "--pix">>
    /\ outcome.kind = "NotImplementedError" /\ outcome.status = 1

ExpectedPackage(av) == IF av = <<>> THEN None ELSE av[2]
ValidPackageArgs(av) ==
    \/ av = <<>>
    \/ Len(av) = 2 /\ av[1] = "--package" /\ ~IsOptionString(av[2])

\* C4: for every valid --package command line (and for none) check.main
\* parses package = the given value (None when omitted) and calls gammapy.test
\* exactly once, with that value and verbose=True; a direct check(p) call
\* passes p the same way.
PackagePassedThrough ==
    /\ (InCheckMain /\ ValidPackageArgs(argv) /\ pc # "ck_main") =>
          /\ entered
          /\ package = ExpectedPackage(argv)
          /\ pc \in {"ck_config", "ck_test"} => testCalls = <<>>
          /\ pc = "done" =>
               testCalls = <<[package |-> ExpectedPackage(argv), verbose |-> TRUE]>>
    /\ (fn = "check" /\ entered /\ pc = "done") =>
          testCalls = <<[package |-> package, verbose |-> TRUE]>>

\* check.main(["--package", "gammapy.stats"]) has called gammapy.test
PackagePassedThroughWitness ==
    /\ InCheckMain /\ pc = "done"
    /\ argv = <<"--package", "gammapy.stats">>
    /\ Len(testCalls) = 1 /\ testCalls[1].package = "gammapy.stats"

\* C5: find_runs.main binds outfile by position: list.txt out.txt 10.0 20.0
\* gives infile=list.txt, outfile=out.txt opened for writing, x=10, y=20,
\* pix=False, overwrite=False; list.txt 10.0 20.0 gives outfile=sys.stdout and
\* x=10, y=20.
OutfileBoundByPosition ==
    /\ (InFindRunsMain /\ pc # "fr_main"
          /\ argv = <<"list.txt", "out.txt", "10.0", "20.0">>) =>
          /\ entered
          /\ args = [infile |-> Handle("list.txt", "r"),
                     outfile |-> Handle("out.txt", "w"),
                     x |-> 10, y |-> 20, pix |-> FALSE, overwrite |-> FALSE]
    /\ (InFindRunsMain /\ pc # "fr_main"
          /\ argv = <<"list.txt", "10.0", "20.0">>) =>
          /\ entered
          /\ args = [infile |-> Handle("list.txt", "r"), outfile |-> Stdout,
                     x |-> 10, y |-> 20, pix |-> FALSE, overwrite |-> FALSE]

\* the three-string command line was parsed: outfile is sys.stdout
OutfileBoundByPositionWitness ==
    /\ InFindRunsMain /\ pc = "fr_config"
    /\ argv = <<"list.txt", "10.0", "20.0">>
    /\ args.outfile = Stdout /\ args.x = 10 /\ args.y = 20

\* C6 as stated: a find_runs.main that names an existing output file (out.txt)
\* and is not given --overwrite leaves that file's contents unchanged.
NoClobberWithoutOverwrite ==
    (InFindRunsMain /\ "--overwrite" \notin Range(argv)) =>
        files["out.txt"] = Files0["out.txt"]

\* C7 as stated: a check invocation succeeds only when the delegated test run
\* succeeded, and fails whenever it failed.
CheckOutcomeFollowsTestRun ==
    (InCheckMain /\ pc = "done" /\ testResult # "none") =>
        (outcome.status = 0 <=> testResult = "passed")

\* the argument list is one the parser rejects
ParserRejects ==
    \/ fn = "find_runs" /\ FindRunsParseArgs(argv, Files0).status = "error"
    \/ fn = "check" /\ CheckParseArgs(argv).status = "error"

\* C8: in both tools an argument-parsing error ends main with the parser's
\* usage message on standard error and exit status 2, and the delegate is not
\* reached: check()/gammapy.test and find_runs() are not called.
ParseErrorStopsMain ==
    (viaMain /\ pc \notin {"fr_main", "ck_main"} /\ ParserRejects) =>
        /\ pc = "done"
        /\ outcome.kind = "SystemExit" /\ outcome.status = 2
        /\ stderr = "usage"
        /\ ~entered
        /\ testCalls = <<>>
        /\ trace = <<"parse_args">>

\* check.main(["--package"]): the option lacks its value
ParseErrorStopsMainWitness ==
    /\ InCheckMain /\ pc = "done"
    /\ argv = <<"--package">>
    /\ outcome.status = 2 /\ stderr = "usage" /\ ~entered

\* C9: the first basicConfig of a process leaves DEBUG level and the one
\* handler with the fixed format; once configured, no step of any later call
\* of check() or find_runs() changes the logging configuration.
LoggingWriteOnce ==
    [][ /\ pc \in {"fr_config", "ck_config"} => logging' = ConfiguredLogging
        /\ logging # FreshLogging => logging' = logging ]_vars

\* check() as the third call of a process has passed its basicConfig
LoggingWriteOnceWitness ==
    /\ fn = "check" /\ ncalls = 3 /\ pc = "ck_test"
    /\ logging = ConfiguredLogging

\* the steps of one call, in the order of the code
StepsOf(tool, main) ==
    (IF main THEN <<"parse_args">> ELSE <<>>)
        \o <<"basicConfig", IF tool = "check" THEN "gammapy.test" ELSE "raise">>
IsPrefix(p, q) == Len(p) <= Len(q) /\ \A i \in DOMAIN p : p[i] = q[i]

\* C10: each call is one linear sequence parse_args, basicConfig, terminal
\* step (gammapy.test in check, raise in find_runs); the terminal step is
\* reached only with logging configured, and after find_runs has raised the
\* configuration is still in effect.
StepsInOrder ==
    /\ fn # "none" => IsPrefix(trace, StepsOf(fn, viaMain))
    /\ pc \in {"fr_raise", "ck_test"} => logging = ConfiguredLogging
    /\ (Range(trace) \cap {"gammapy.test", "raise"} # {}) =>
          logging = ConfiguredLogging
    /\ outcome.kind = "NotImplementedError" => logging = ConfiguredLogging

\* find_runs.main in a fresh process went through all three steps
StepsInOrderWitness ==
    /\ InFindRunsMain /\ pc = "done" /\ ncalls = 1
    /\ trace = <<"parse_args", "basicConfig", "raise">>
    /\ logging = ConfiguredLogging

====
